---- MODULE Spec2Model ----
(***************************************************************************)
(* The two protocol executors of a2a_server.py (GenAIAgentExecutor.execute *)
(* and MCPAgentExecutor.execute_message) and the skills they route to      *)
(* (main_multi_agent.py, main_agentos.py).                                 *)
(*                                                                         *)
(* A Python object is a record [ty, v]: ty is the Python type, v the       *)
(* content.  A str holds its characters, so serialised JSON is a real      *)
(* character string and decoding has to take it apart again.               *)
(***************************************************************************)
EXTENDS Integers, Sequences, FiniteSets, TLC

VARIABLES
    executor,   \* the fields set by __init__: agent_func and context
    pc,         \* per request slot: "idle", "awaiting" (suspended in a skill), "done"
    req,        \* per slot: the arguments of the call being handled
    pending,    \* per slot: the skill invocation the call is suspended in
    calls,      \* per slot: the skill invocations made for this call, in order
    fault,      \* per slot: the exception raised while handling the call, if any
    resp        \* per slot: what the call gave back to its caller

vars == <<executor, pc, req, pending, calls, fault, resp>>

\* The calls in flight on the executors: one at a time.
Slots == {1}

\* How many skill ids outside the registry, and how many fresh envelope ids,
\* the model tries.
MaxUnknownIds == 2
MaxUuids == 2
MaxComponents == 2

-----------------------------------------------------------------------------
(* Python values *)

PyStr(s) == [ty |-> "str", v |-> s]
PyInt(n) == [ty |-> "int", v |-> n]
\* A float with one decimal, held in tenths.
PyFloat(tenths) == [ty |-> "float", v |-> tenths]
PyList(q) == [ty |-> "list", v |-> q]
PyDict(f) == [ty |-> "dict", v |-> f]
PyNone == [ty |-> "none", v |-> "None"]
PyBool(b) == [ty |-> "bool", v |-> b]

EmptyDict == PyDict(<<>>)

\* type(x).__name__, as Python prints it in its own error messages.
TypeName(x) == IF x.ty = "none" THEN "NoneType" ELSE x.ty

Exc(cls, msg) == [cls |-> cls, msg |-> msg]
NoFault == [cls |-> "", msg |-> ""]

\* What evaluating an expression or awaiting a skill gives: a value or a raised exception.
Ok(x) == [ok |-> TRUE, val |-> x]
Raise(e) == [ok |-> FALSE, val |-> e]

\* obj.get(key, default): a mapping answers, anything else has no such attribute.
AttrGet(obj, key, default) ==
    IF obj.ty = "dict"
    THEN Ok(IF key \in DOMAIN obj.v THEN obj.v[key] ELSE default)
    ELSE Raise(Exc("AttributeError",
                   "'" \o TypeName(obj) \o "' object has no attribute 'get'"))

\* needle in hay, for two strings: substring search.
StrContains(needle, hay) ==
    \E i \in 1 .. (Len(hay) - Len(needle) + 1) :
        SubSeq(hay, i, i + Len(needle) - 1) = needle

RECURSIVE JoinStrings(_, _)
JoinStrings(q, sep) ==
    IF q = <<>> THEN ""
    ELSE IF Len(q) = 1 THEN q[1]
    ELSE q[1] \o sep \o JoinStrings(Tail(q), sep)

-----------------------------------------------------------------------------
(* json.dumps and json.loads *)

\* The keys the modelled mappings use, in the order their entries are written.
KeyOrder ==
    <<"error", "user_request", "prompt", "components", "optimizations",
      "eco_grade", "best_practices_score", "page_weight_score",
      "performance_score", "generatedCode", "reportMarkdown", "ecoGrade">>

KeysOf(d) == SelectSeq(KeyOrder, LAMBDA k : k \in DOMAIN d.v)

FloatStr(tenths) ==
    (IF tenths < 0 THEN "-" ELSE "")
        \o ToString((IF tenths < 0 THEN -tenths ELSE tenths) \div 10) \o "."
        \o ToString((IF tenths < 0 THEN -tenths ELSE tenths) % 10)

\* json.dumps without the escaping: the characters of a string go out as
\* they are.
RECURSIVE json_dumps_unescaped(_)
json_dumps_unescaped(x) ==
    CASE x.ty = "str" -> "\"" \o x.v \o "\""
      [] x.ty = "int" -> ToString(x.v)
      [] x.ty = "float" -> FloatStr(x.v)
      [] x.ty = "none" -> "null"
      [] x.ty = "bool" -> IF x.v THEN "true" ELSE "false"
      [] x.ty = "list" ->
            "[" \o JoinStrings([i \in DOMAIN x.v |-> json_dumps_unescaped(x.v[i])], ", ")
                \o "]"
      [] x.ty = "dict" ->
            "{" \o JoinStrings(
                       [i \in DOMAIN KeysOf(x) |->
                           "\"" \o KeysOf(x)[i] \o "\": "
                               \o json_dumps_unescaped(x.v[KeysOf(x)[i]])],
                       ", ") \o "}"

\* The characters of a string as json.dumps writes them between the quotes:
\* the quote, the backslash and the control characters are escaped.
RECURSIVE EscapeJson(_)
EscapeJson(s) ==
    IF s = "" THEN ""
    ELSE LET c == SubSeq(s, 1, 1) IN
         (CASE c = "\"" -> "\\\""
            [] c = "\\" -> "\\\\"
            [] c = "\n" -> "\\n"
            [] c = "\r" -> "\\r"
            [] c = "\t" -> "\\t"
            [] c = "\f" -> "\\f"
            [] OTHER -> c) \o EscapeJson(SubSeq(s, 2, Len(s)))

\* json.dumps with the default separators: the characters of the document.
RECURSIVE json_dumps(_)
json_dumps(x) ==
    CASE x.ty = "str" -> "\"" \o EscapeJson(x.v) \o "\""
      [] x.ty = "int" -> ToString(x.v)
      [] x.ty = "float" -> FloatStr(x.v)
      [] x.ty = "none" -> "null"
      [] x.ty = "bool" -> IF x.v THEN "true" ELSE "false"
      [] x.ty = "list" ->
            "[" \o JoinStrings([i \in DOMAIN x.v |-> json_dumps(x.v[i])], ", ") \o "]"
      [] x.ty = "dict" ->
            "{" \o JoinStrings(
                       [i \in DOMAIN KeysOf(x) |->
                           "\"" \o EscapeJson(KeysOf(x)[i]) \o "\": "
                               \o json_dumps(x.v[KeysOf(x)[i]])],
                       ", ") \o "}"

\* The structured values of the model: a plan as the planner writes it, two
\* plans with a field of the wrong type, a request mapping, the empty mapping
\* and a value that is structured but no mapping.
GoodPlan ==
    PyDict([k \in {"components", "optimizations"} |->
               IF k = "components" THEN PyList(<<PyStr("Data Table")>>)
                                   ELSE PyList(<<PyStr("LazyLoading")>>)])
BadComponentsPlan == PyDict([k \in {"components"} |-> PyList(<<PyInt(7)>>)])
BadOptimizationsPlan == PyDict([k \in {"optimizations"} |-> PyInt(5)])
RequestFields ==
    PyDict([k \in {"user_request", "prompt"} |->
               IF k = "user_request" THEN PyStr("plan") ELSE PyStr("build a gallery")])
NameList == PyList(<<PyStr("LazyLoading")>>)

\* The exception of a call of full_stack_agent whose model answered no JSON.
JSONDecodeError == Exc("JSONDecodeError", "Expecting value: line 1 column 1 (char 0)")

\* The character of s at position i (from 1), "" past its end.
CharAt(s, i) == IF i >= 1 /\ i <= Len(s) THEN SubSeq(s, i, i) ELSE ""

Whitespace == {" ", "\t", "\n", "\r"}
Digits == {"0", "1", "2", "3", "4", "5", "6", "7", "8", "9"}
ControlChars == {"\t", "\n", "\r", "\f"}

RECURSIVE SkipWhitespace(_, _)
SkipWhitespace(s, i) ==
    IF CharAt(s, i) \in Whitespace THEN SkipWhitespace(s, i + 1) ELSE i

\* A value read from the document, and the position after it.
Parsed(val, pos) == [ok |-> TRUE, val |-> val, pos |-> pos]

\* JSONDecodeError(msg, doc, pos) for the character at position i: the
\* message with the line, the column and the offset from 0.
DecodeError(msg, s, i) ==
    LET newlines == {j \in 1 .. (i - 1) : CharAt(s, j) = "\n"}
        colno == IF newlines = {} THEN i
                 ELSE i - (CHOOSE m \in newlines : \A n \in newlines : n <= m)
    IN  [ok |-> FALSE,
         val |-> Exc("JSONDecodeError",
                     msg \o ": line " \o ToString(Cardinality(newlines) + 1)
                         \o " column " \o ToString(colno)
                         \o " (char " \o ToString(i - 1) \o ")")]

DigitValue(c) == CHOOSE d \in 0 .. 9 : ToString(d) = c

\* The number the digits from position i on spell, and the position after them.
RECURSIVE ScanDigits(_, _, _)
ScanDigits(s, i, acc) ==
    IF CharAt(s, i) \in Digits
    THEN ScanDigits(s, i + 1, acc * 10 + DigitValue(CharAt(s, i)))
    ELSE [val |-> acc, pos |-> i]

\* The number whose integer part has been read: a float when a fraction
\* follows, an int otherwise.
NumberAfterInteger(s, sign, int) ==
    IF CharAt(s, int.pos) = "." /\ CharAt(s, int.pos + 1) \in Digits
    THEN Parsed(PyFloat(sign * (int.val * 10 + DigitValue(CharAt(s, int.pos + 1)))),
                int.pos + 2)
    ELSE Parsed(PyInt(sign * int.val), int.pos)

\* The number whose digits start at position start, after an optional sign
\* at position i: 0, or digits not starting with 0.
NumberFrom(s, i, start, sign) ==
    IF CharAt(s, start) \notin Digits THEN DecodeError("Expecting value", s, i)
    ELSE IF CharAt(s, start) = "0"
    THEN NumberAfterInteger(s, sign, [val |-> 0, pos |-> start + 1])
    ELSE NumberAfterInteger(s, sign, ScanDigits(s, start, 0))

\* A number: an optional sign, an integer part and a fraction.  Floats are
\* held in tenths, so the fraction read is one digit; exponents are not read.
ParseNumber(s, i) ==
    IF CharAt(s, i) = "-" THEN NumberFrom(s, i, i + 1, -1) ELSE NumberFrom(s, i, i, 1)

\* The character an escape stands for (\b and \uXXXX, which json.dumps writes
\* for characters no string here holds, are not read).
Unescaped ==
    [c \in {"\"", "\\", "/", "f", "n", "r", "t"} |->
        CASE c = "\"" -> "\""
          [] c = "\\" -> "\\"
          [] c = "/" -> "/"
          [] c = "f" -> "\f"
          [] c = "n" -> "\n"
          [] c = "r" -> "\r"
          [] c = "t" -> "\t"]

\* The characters of a string from position j to its closing quote; begin is
\* the position of the opening quote.
RECURSIVE ScanString(_, _, _, _)
ScanString(s, begin, j, acc) ==
    LET c == CharAt(s, j) IN
    CASE c = "" -> DecodeError("Unterminated string starting at", s, begin)
      [] c = "\"" -> Parsed(acc, j + 1)
      [] c = "\\" ->
            IF CharAt(s, j + 1) = ""
            THEN DecodeError("Unterminated string starting at", s, begin)
            ELSE IF CharAt(s, j + 1) \in DOMAIN Unescaped
            THEN ScanString(s, begin, j + 2, acc \o Unescaped[CharAt(s, j + 1)])
            ELSE DecodeError("Invalid \\escape", s, j)
      [] c \in ControlChars -> DecodeError("Invalid control character at", s, j)
      [] OTHER -> ScanString(s, begin, j + 1, acc \o c)

\* The mapping of the members read: a repeated key keeps its last value.
DictOf(pairs) ==
    PyDict([key \in {pairs[n].k : n \in DOMAIN pairs} |->
               pairs[CHOOSE n \in DOMAIN pairs :
                         /\ pairs[n].k = key
                         /\ \A m \in DOMAIN pairs : pairs[m].k = key => m <= n].v])

RECURSIVE ParseValue(_, _)
RECURSIVE ParseMembers(_, _, _)
RECURSIVE ParseElements(_, _, _)

\* An object, member by member.  After a member, at position k: the closing
\* brace, or a comma and the opening quote of the next key.
NextMember(s, n, pairs) ==
    IF CharAt(s, n) # "\""
    THEN DecodeError("Expecting property name enclosed in double quotes", s, n)
    ELSE ParseMembers(s, n, pairs)

MemberDelimiter(s, k, pairs) ==
    IF CharAt(s, k) = "}" THEN Parsed(DictOf(pairs), k + 1)
    ELSE IF CharAt(s, k) # "," THEN DecodeError("Expecting ',' delimiter", s, k)
    ELSE NextMember(s, SkipWhitespace(s, k + 1), pairs)

\* The value of a member has been read.
MemberAfterValue(s, key, value, pairs) ==
    IF ~value.ok THEN value
    ELSE MemberDelimiter(s, SkipWhitespace(s, value.pos),
                         Append(pairs, [k |-> key.val, v |-> value.val]))

\* After the key, at position colon: the colon and the value.
MemberColon(s, key, colon, pairs) ==
    IF CharAt(s, colon) # ":" THEN DecodeError("Expecting ':' delimiter", s, colon)
    ELSE MemberAfterValue(s, key, ParseValue(s, SkipWhitespace(s, colon + 1)), pairs)

\* The key of a member has been read.
MemberAfterKey(s, key, pairs) ==
    IF ~key.ok THEN key
    ELSE MemberColon(s, key, SkipWhitespace(s, key.pos), pairs)

\* The members of an object from the opening quote of a key at position j.
ParseMembers(s, j, pairs) == MemberAfterKey(s, ScanString(s, j, j + 1, ""), pairs)

\* An array, element by element.  After an element, at position k: the
\* closing bracket, or a comma and the next element.
ElementDelimiter(s, k, items) ==
    IF CharAt(s, k) = "]" THEN Parsed(PyList(items), k + 1)
    ELSE IF CharAt(s, k) # "," THEN DecodeError("Expecting ',' delimiter", s, k)
    ELSE ParseElements(s, SkipWhitespace(s, k + 1), items)

\* An element has been read.
ElementAfterValue(s, value, items) ==
    IF ~value.ok THEN value
    ELSE ElementDelimiter(s, SkipWhitespace(s, value.pos), Append(items, value.val))

\* The elements of an array from the start of an element at position i.
ParseElements(s, i, items) == ElementAfterValue(s, ParseValue(s, i), items)

\* The str of the characters scanned.
StringValue(str) == IF str.ok THEN Parsed(PyStr(str.val), str.pos) ELSE str

\* After the opening brace, at position j: the closing brace or the first key.
ObjectFrom(s, j) ==
    IF CharAt(s, j) = "}" THEN Parsed(EmptyDict, j + 1) ELSE NextMember(s, j, <<>>)

\* After the opening bracket, at position j: the closing bracket or the first
\* element.
ArrayFrom(s, j) ==
    IF CharAt(s, j) = "]" THEN Parsed(PyList(<<>>), j + 1) ELSE ParseElements(s, j, <<>>)

\* The word w stands at position i.
WordAt(s, i, w) == i + Len(w) - 1 <= Len(s) /\ SubSeq(s, i, i + Len(w) - 1) = w

\* The value that starts at position i.
ParseValue(s, i) ==
    LET c == CharAt(s, i) IN
    CASE c = "\"" -> StringValue(ScanString(s, i, i + 1, ""))
      [] c = "{" -> ObjectFrom(s, SkipWhitespace(s, i + 1))
      [] c = "[" -> ArrayFrom(s, SkipWhitespace(s, i + 1))
      [] c = "n" /\ WordAt(s, i, "null") -> Parsed(PyNone, i + 4)
      [] c = "t" /\ WordAt(s, i, "true") -> Parsed(PyBool(TRUE), i + 4)
      [] c = "f" /\ WordAt(s, i, "false") -> Parsed(PyBool(FALSE), i + 5)
      [] c \in Digits \cup {"-"} -> ParseNumber(s, i)
      [] OTHER -> DecodeError("Expecting value", s, i)

\* The document must be all of s but for whitespace.
DocumentEnd(s, obj, end) ==
    IF end # Len(s) + 1 THEN Raise(DecodeError("Extra data", s, end).val) ELSE Ok(obj.val)

DocumentValue(s, obj) ==
    IF ~obj.ok THEN Raise(obj.val) ELSE DocumentEnd(s, obj, SkipWhitespace(s, obj.pos))

\* json.loads(s): the value the document s spells; a str that is no document
\* raises JSONDecodeError, an argument that is no str raises TypeError.
json_loads(s) ==
    IF s.ty # "str"
    THEN Raise(Exc("TypeError",
                   "the JSON object must be str, bytes or bytearray, not " \o TypeName(s)))
    ELSE DocumentValue(s.v, ParseValue(s.v, SkipWhitespace(s.v, 1)))

-----------------------------------------------------------------------------
(* The skills *)

\* planner_agent never reads its arguments: it returns the sample plan.
planner_agent(agent_context, user_request) ==
    { Ok(PyDict([k \in {"components", "optimizations"} |->
            IF k = "components"
            THEN PyList(<<PyStr("React Component"), PyStr("CSS Styling")>>)
            ELSE PyList(<<PyStr("LazyLoading"), PyStr("Memoization"),
                          PyStr("ResponsiveImages")>>)])) }

\* iter(x): the items a for loop or str.join sees, or the TypeError of a
\* value that cannot be iterated.
PyIter(x) ==
    CASE x.ty = "list" -> Ok(x.v)
      [] x.ty = "str" -> Ok([i \in 1 .. Len(x.v) |-> PyStr(SubSeq(x.v, i, i))])
      [] x.ty = "dict" -> Ok([i \in DOMAIN KeysOf(x) |-> PyStr(KeysOf(x)[i])])
      [] OTHER -> Raise(Exc("TypeError", "'" \o TypeName(x) \o "' object is not iterable"))

\* ', '.join(x)
StrJoin(x) ==
    LET it == PyIter(x) IN
    IF ~it.ok THEN Raise(Exc("TypeError", "can only join an iterable"))
    ELSE LET bad == {i \in DOMAIN it.val : it.val[i].ty # "str"} IN
         IF bad # {}
         THEN LET i == CHOOSE m \in bad : \A n \in bad : m <= n IN
              Raise(Exc("TypeError",
                        "sequence item " \o ToString(i - 1) \o ": expected str instance, "
                            \o TypeName(it.val[i]) \o " found"))
         ELSE Ok(JoinStrings([i \in DOMAIN it.val |-> it.val[i].v], ", "))

\* executor_agent: the component template around the two joined lists.
executor_agent(agent_context, plan) ==
    LET components == AttrGet(plan, "components", PyList(<<>>))
        optimizations == AttrGet(plan, "optimizations", PyList(<<>>))
    IN  IF ~components.ok THEN {components}
        ELSE LET jc == StrJoin(components.val)
                 jo == StrJoin(optimizations.val)
             IN  IF ~jc.ok THEN {jc}
                 ELSE IF ~jo.ok THEN {jo}
                 ELSE { Ok(PyStr(
                     "\nimport React from 'react';\n\nconst GeneratedComponent = () => {\n"
                     \o "  // Components: " \o jc.val \o "\n"
                     \o "  // Optimizations: " \o jo.val \o "\n  \n  return (\n"
                     \o "    <div style={{padding: '20px'}}>\n"
                     \o "      <h1>Generated React Component</h1>\n"
                     \o "      <p>This component was generated based on the plan.</p>\n"
                     \o "    </div>\n  );\n};\n\nexport default GeneratedComponent;\n")) }

\* needle in container, needle a str.
PyIn(needle, container) ==
    CASE container.ty = "list" -> Ok(\E i \in DOMAIN container.v : container.v[i] = PyStr(needle))
      [] container.ty = "str" -> Ok(StrContains(needle, container.v))
      [] container.ty = "dict" -> Ok(needle \in DOMAIN container.v)
      [] OTHER -> Raise(Exc("TypeError",
                            "argument of type '" \o TypeName(container) \o "' is not iterable"))

\* any(k1 in s or k2 in s or k3 in s for s in components): the items are
\* tried in order and the first one that holds ends the search, so an item
\* that cannot be searched raises only when no earlier item held.
AnyKeyword(keywords, components) ==
    LET it == PyIter(components) IN
    IF ~it.ok THEN it
    ELSE LET hit(i) == \E k \in keywords : PyIn(k, it.val[i]) = Ok(TRUE)
             bad(i) == it.val[i].ty \notin {"list", "str", "dict"}
             stops == {i \in DOMAIN it.val : hit(i) \/ bad(i)}
         IN  IF stops = {} THEN Ok(FALSE)
             ELSE LET i == CHOOSE m \in stops : \A n \in stops : m <= n IN
                  IF bad(i) THEN PyIn("", it.val[i]) ELSE Ok(TRUE)

\* The thirteen heuristics of auditor_agent, in the order the code tests
\* them: the optimization, what it adds when present, what its absence costs,
\* and the component keywords that make its absence count (none: always).
Heuristics ==
    << [opt |-> "NextGenFormats", bonus |-> 10, penalty |-> 5, always |-> TRUE,
        keywords |-> {}],
       [opt |-> "LazyLoading", bonus |-> 15, penalty |-> 10, always |-> FALSE,
        keywords |-> {"Table", "List", "Gallery"}],
       [opt |-> "ResponsiveImages", bonus |-> 10, penalty |-> 5, always |-> FALSE,
        keywords |-> {"Image", "Photo", "Banner"}],
       [opt |-> "CodeSplitting", bonus |-> 10, penalty |-> 5, always |-> FALSE,
        keywords |-> {"Chart", "Dashboard", "Modal"}],
       [opt |-> "PayloadReduction", bonus |-> 8, penalty |-> 5, always |-> FALSE,
        keywords |-> {"Table", "List", "Data"}],
       [opt |-> "AvoidPolling", bonus |-> 8, penalty |-> 8, always |-> FALSE,
        keywords |-> {"Realtime", "Live", "Feed"}],
       [opt |-> "Memoization", bonus |-> 12, penalty |-> 10, always |-> FALSE,
        keywords |-> {"List", "Table", "Grid"}],
       [opt |-> "ConditionalRendering", bonus |-> 8, penalty |-> 5, always |-> FALSE,
        keywords |-> {"Tab", "Modal", "Accordion"}],
       [opt |-> "DebounceStateUpdates", bonus |-> 8, penalty |-> 5, always |-> FALSE,
        keywords |-> {"Search", "Filter", "Resize"}],
       [opt |-> "PromoteFlatState", bonus |-> 8, penalty |-> 5, always |-> FALSE,
        keywords |-> {"Form", "Filter", "Dashboard"}],
       [opt |-> "PreferCSSTransitions", bonus |-> 8, penalty |-> 5, always |-> FALSE,
        keywords |-> {"Animation", "Transition", "Hover"}],
       [opt |-> "HardwareAcceleratedProperties", bonus |-> 8, penalty |-> 5, always |-> FALSE,
        keywords |-> {"Animation", "Transition"}],
       [opt |-> "UseCSSVariablesForThemes", bonus |-> 8, penalty |-> 5, always |-> FALSE,
        keywords |-> {"Theme", "Dark", "Style"}] >>

\* One heuristic applied to the running score: the new score, or the
\* TypeError of a plan whose fields cannot be searched.
ApplyHeuristic(h, score, optimizations, components) ==
    LET present == PyIn(h.opt, optimizations) IN
    IF ~present.ok THEN present
    ELSE IF present.val THEN Ok(score + h.bonus)
    ELSE IF h.always THEN Ok(score - h.penalty)
    ELSE LET needed == AnyKeyword(h.keywords, components) IN
         IF ~needed.ok THEN needed
         ELSE Ok(IF needed.val THEN score - h.penalty ELSE score)

\* The running score after the first n heuristics, from the base score.
RECURSIVE RunningScore(_, _, _)
RunningScore(n, optimizations, components) ==
    IF n = 0 THEN Ok(70)
    ELSE LET before == RunningScore(n - 1, optimizations, components) IN
         IF ~before.ok THEN before
         ELSE ApplyHeuristic(Heuristics[n], before.val, optimizations, components)

Min(a, b) == IF a < b THEN a ELSE b
Max(a, b) == IF a > b THEN a ELSE b

\* The score used as the heuristics left it.
CapScoreUnclamped(score) == score

\* min(max(best_practices_score, 0), 100)
CapScore(score) == Min(Max(score, 0), 100)

\* auditor_agent: the capped best-practices score and the grade built on it.
\* The mocked scores are the numbers the code computes from its mocked
\* measurements (page weight 85, performance 50 * 0.6 + 100 * 0.4 = 70.0);
\* floats are held in tenths.  The report text, the notes and the
\* recommendations, which repeat the same tests as text, are not modelled.
auditor_agent(agent_context, plan) ==
    LET optimizations == AttrGet(plan, "optimizations", PyList(<<>>))
        components == AttrGet(plan, "components", PyList(<<>>))
    IN  IF ~optimizations.ok THEN {optimizations}
        ELSE LET run == RunningScore(Len(Heuristics), optimizations.val, components.val) IN
             IF ~run.ok THEN {run}
             ELSE LET best_practices_score == CapScore(run.val) IN
                  { Ok(PyDict([k \in {"eco_grade", "best_practices_score",
                                      "page_weight_score", "performance_score"} |->
                        CASE k = "eco_grade" ->
                                 PyFloat(425 + 210 + 2 * best_practices_score)
                          [] k = "best_practices_score" -> PyInt(best_practices_score)
                          [] k = "page_weight_score" -> PyInt(85)
                          [] k = "performance_score" -> PyFloat(700)])) }

\* full_stack_agent (main_agentos.py) asks a language model three times and
\* decodes its first answer: which answer comes back is not decided by the
\* arguments, so every outcome the code can have is possible: the combined
\* result, the JSONDecodeError of an answer that is no JSON, or the failure
\* of a model call.
full_stack_agent(agent_context, prompt) ==
    { Ok(PyDict([k \in {"generatedCode", "reportMarkdown", "ecoGrade"} |->
            CASE k = "generatedCode" -> PyStr("<div class=\"gallery\">\n</div>")
              [] k = "reportMarkdown" -> PyStr("Eco-Grade: 90.1")
              [] k = "ecoGrade" -> PyFloat(901)])),
      Raise(JSONDecodeError),
      Raise(Exc("RuntimeError", "model call failed")) }

-----------------------------------------------------------------------------
(* What the executors work with *)

\* The content type and content kind enumerations, by the values the wire
\* shapes give them.
TEXT_PLAIN == "text/plain"
APPLICATION_JSON == "application/json"
TEXT == "text"
JSON == "json"

RegisteredSkills == {"planner_agent", "executor_agent", "auditor_agent", "full_stack_agent"}
StructuredOnlySkills == {"executor_agent", "auditor_agent"}

\* await <skill>(context, arg): the outcomes the named skill can have.
SkillOutcomes(skill, context, arg) ==
    CASE skill = "planner_agent" -> planner_agent(context, arg)
      [] skill = "executor_agent" -> executor_agent(context, arg)
      [] skill = "auditor_agent" -> auditor_agent(context, arg)
      [] skill = "full_stack_agent" -> full_stack_agent(context, arg)

\* The three ways the code before the await ends: it calls a skill (guarded
\* when the call stands inside the try of the JSON decoding), it returns, or
\* a statement of it raises.
InvokeWithNewContext(skill, context, arg, guarded) ==
    [step |-> "invoke", skill |-> skill, context |-> "new_context", arg |-> arg,
     guarded |-> guarded]
Invoke(skill, context, arg, guarded) ==
    [step |-> "invoke", skill |-> skill, context |-> context, arg |-> arg,
     guarded |-> guarded]
Return(value) == [step |-> "return", value |-> value]
Raised(e) == [step |-> "raise", fault |-> e]

\* await skill(self.context, <expr>): the argument expression is evaluated
\* first, and the skill is only called if that did not raise.
InvokeWith(skill, context, argument) ==
    IF argument.ok THEN Invoke(skill, context, argument.val, FALSE)
    ELSE Raised(argument.val)

\* What a call hands its caller: a returned value, or an exception let through.
Returned(value) == [how |-> "returned", value |-> value]
Propagated(e) == [how |-> "raised", value |-> e]

\* {"error": message}
ErrorMap(message) == PyDict([k \in {"error"} |-> PyStr(message)])

\* str(x)
RECURSIVE py_repr(_)
py_repr(x) ==
    CASE x.ty = "str" -> "'" \o x.v \o "'"
      [] x.ty = "int" -> ToString(x.v)
      [] x.ty = "float" -> FloatStr(x.v)
      [] x.ty = "none" -> "None"
      [] x.ty = "bool" -> IF x.v THEN "True" ELSE "False"
      [] x.ty = "list" ->
            "[" \o JoinStrings([i \in DOMAIN x.v |-> py_repr(x.v[i])], ", ") \o "]"
      [] x.ty = "dict" ->
            "{" \o JoinStrings(
                       [i \in DOMAIN KeysOf(x) |->
                           "'" \o KeysOf(x)[i] \o "': " \o py_repr(x.v[KeysOf(x)[i]])],
                       ", ") \o "}"

py_str(x) == IF x.ty = "str" THEN x.v ELSE py_repr(x)

-----------------------------------------------------------------------------
(* GenAIAgentExecutor.execute *)

\* An else branch that falls back to the function the executor was built with.
ExecuteUnknownSkillCallsAgentFunc(skill_id) ==
    Invoke(executor.A.agent_func, executor.A.context, PyStr(""), FALSE)

\* return {"error": f"Unknown skill ID: {skill_id}"}
ExecuteUnknownSkill(skill_id) == Return(ErrorMap("Unknown skill ID: " \o skill_id))

\* The message without the id in it.
ExecuteRequiresJsonUnnamed(skill_id) == Return(ErrorMap("Skill requires JSON input"))

\* return {"error": f"Skill {skill_id} requires JSON input"}
ExecuteRequiresJson(skill_id) ==
    Return(ErrorMap("Skill " \o skill_id \o " requires JSON input"))

\* A Structured branch that hands every skill the whole content.
ExecuteRouteUnprojected(context, content, skill_id, content_type) ==
    IF content_type = APPLICATION_JSON
    THEN IF skill_id \in RegisteredSkills
         THEN Invoke(skill_id, context, content, FALSE)
         ELSE ExecuteUnknownSkill(skill_id)
    ELSE IF skill_id \in {"planner_agent", "full_stack_agent"}
         THEN Invoke(skill_id, context, content, FALSE)
         ELSE ExecuteRequiresJson(skill_id)

\* The body of the try up to the await.
ExecuteRoute(context, content, skill_id, content_type) ==
    IF content_type = APPLICATION_JSON
    THEN CASE skill_id = "planner_agent" ->
                  InvokeWith("planner_agent", context,
                             AttrGet(content, "user_request", PyStr("")))
           [] skill_id = "executor_agent" ->
                  Invoke("executor_agent", context, content, FALSE)
           [] skill_id = "auditor_agent" ->
                  Invoke("auditor_agent", context, content, FALSE)
           [] skill_id = "full_stack_agent" ->
                  InvokeWith("full_stack_agent", context,
                             AttrGet(content, "prompt", PyStr("")))
           [] OTHER -> ExecuteUnknownSkill(skill_id)
    ELSE CASE skill_id = "planner_agent" ->
                  Invoke("planner_agent", context, content, FALSE)
           [] skill_id = "full_stack_agent" ->
                  Invoke("full_stack_agent", context, content, FALSE)
           [] OTHER -> ExecuteRequiresJson(skill_id)

\* A handler that is missing: the exception leaves execute.
ExecuteExceptLetsThrough(e) == Propagated(e)

\* except Exception as e: return {"error": str(e)}
ExecuteExcept(e) == Returned(ErrorMap(e.msg))

\* return result
ExecuteResult(result) == Returned(result)

-----------------------------------------------------------------------------
(* MCPAgentExecutor.execute_message *)

MCPMessageContent(type, content) == [type |-> type, content |-> content]
MCPMessage(id, content, metadata) == [id |-> id, content |-> content, metadata |-> metadata]

\* metadata.get(key, default)
MetadataGet(metadata, key, default) ==
    IF key \in DOMAIN metadata THEN metadata[key] ELSE default

\* An error envelope whose metadata only flags the error.
ErrorMessageFlagOnly(uuid, type, message) ==
    MCPMessage(uuid,
               MCPMessageContent(type, IF type = TEXT
                                       THEN PyStr(json_dumps(ErrorMap(message)))
                                       ELSE ErrorMap(message)),
               [k \in {"error"} |-> "true"])

\* An error envelope whose message names the envelope's own id.
ErrorMessageNamingId(uuid, type, message) ==
    MCPMessage(uuid,
               MCPMessageContent(type,
                                 IF type = TEXT
                                 THEN PyStr(json_dumps(ErrorMap(message \o " [" \o uuid \o "]")))
                                 ELSE ErrorMap(message \o " [" \o uuid \o "]")),
               [k \in {"error"} |-> message \o " [" \o uuid \o "]"])

\* The error envelope every failure path builds: the message in the payload
\* (serialised when the kind is Text) and again under metadata.error.
ErrorMessage(uuid, type, message) ==
    MCPMessage(uuid,
               MCPMessageContent(type, IF type = TEXT
                                       THEN PyStr(json_dumps(ErrorMap(message)))
                                       ELSE ErrorMap(message)),
               [k \in {"error"} |-> message])

\* A Text branch that forgets to serialise: the result goes out as it is.
ResultMessageUnserialised(uuid, type, skill_id, result) ==
    MCPMessage(uuid, MCPMessageContent(type, result), [k \in {"skill_id"} |-> skill_id])

\* The envelope of a result: serialised or printed for a Text request, as it
\* is for a Structured one.
ResultMessage(uuid, type, skill_id, result) ==
    MCPMessage(uuid,
               MCPMessageContent(type, IF type = TEXT
                                       THEN PyStr(IF result.ty = "dict"
                                                  THEN json_dumps(result)
                                                  ELSE py_str(result))
                                       ELSE result),
               [k \in {"skill_id"} |-> skill_id])

\* except json.JSONDecodeError around the decoding and the skill call
DecodeExcept(uuid) == Returned(ErrorMessage(uuid, TEXT, "Invalid JSON input"))

\* An inner handler written as except Exception: it takes every exception.
IsAnyException(e) == e.cls # ""

\* The exceptions the inner handler takes.
IsJSONDecodeError(e) == e.cls = "JSONDecodeError"

\* A top handler that is missing: the exception leaves execute_message.
MessageExceptLetsThrough(uuid, e) == Propagated(e)

\* except Exception as e at the top of execute_message
MessageExcept(uuid, e) == Returned(ErrorMessage(uuid, TEXT, e.msg))

\* The skill called with the text instead of the value decoded from it.
DecodeAndInvokeText(skill, context, text_content) ==
    LET json_content == json_loads(text_content) IN
    IF json_content.ok THEN Invoke(skill, context, text_content, TRUE)
    ELSE Raised(json_content.val)

\* result = await skill(self.context, json_content), if the decoding gave one.
InvokeDecoded(skill, context, json_content) ==
    IF json_content.ok THEN Invoke(skill, context, json_content.val, TRUE)
    ELSE Raised(json_content.val)

\* json_content = json.loads(text_content); result = await skill(context, json_content)
DecodeAndInvoke(skill, context, text_content) ==
    InvokeDecoded(skill, context, json_loads(text_content))

\* A resolution that falls back to the default for every id it does not know.
SkillIdOfDefaulting(message) ==
    IF "skill_id" \in DOMAIN message.metadata
       /\ message.metadata["skill_id"] \in RegisteredSkills
    THEN message.metadata["skill_id"]
    ELSE "default_skill"

\* skill_id = message.metadata.get("skill_id", "default_skill")
SkillIdOf(message) == MetadataGet(message.metadata, "skill_id", "default_skill")

\* An unknown-skill envelope that is Text whatever the branch.
MessageUnknownSkillAlwaysText(uuid, type, skill_id) ==
    Return(ErrorMessage(uuid, TEXT, "Unknown skill ID: " \o skill_id))

\* The unknown-skill envelope, of the kind of the branch that builds it.
MessageUnknownSkill(uuid, type, skill_id) ==
    Return(ErrorMessage(uuid, type, "Unknown skill ID: " \o skill_id))

\* The unsupported-kind envelope given the kind of the request.
MessageUnsupportedMirrored(uuid, type) ==
    Return(ErrorMessage(uuid, type, "Unsupported content type: " \o type))

\* The envelope for a content kind that is neither Text nor Structured.
MessageUnsupported(uuid, type) ==
    Return(ErrorMessage(uuid, TEXT, "Unsupported content type: " \o type))

\* A Structured branch that hands every skill the whole payload.
MessageRouteUnprojected(context, message, uuid) ==
    LET content == message.content
        skill_id == SkillIdOf(message)
    IN  IF content.type = TEXT
        THEN CASE skill_id \in StructuredOnlySkills ->
                      DecodeAndInvoke(skill_id, context, content.content)
               [] skill_id \in RegisteredSkills \ StructuredOnlySkills ->
                      Invoke(skill_id, context, content.content, FALSE)
               [] OTHER -> MessageUnknownSkill(uuid, TEXT, skill_id)
        ELSE IF content.type = JSON
        THEN IF skill_id \in RegisteredSkills
             THEN Invoke(skill_id, context, content.content, FALSE)
             ELSE MessageUnknownSkill(uuid, JSON, skill_id)
        ELSE MessageUnsupported(uuid, content.type)

\* The body of the try up to the await.
MessageRoute(context, message, uuid) ==
    LET content == message.content
        skill_id == SkillIdOf(message)
    IN  IF content.type = TEXT
        THEN CASE skill_id = "planner_agent" ->
                      Invoke("planner_agent", context, content.content, FALSE)
               [] skill_id = "executor_agent" ->
                      DecodeAndInvoke("executor_agent", context, content.content)
               [] skill_id = "auditor_agent" ->
                      DecodeAndInvoke("auditor_agent", context, content.content)
               [] skill_id = "full_stack_agent" ->
                      Invoke("full_stack_agent", context, content.content, FALSE)
               [] OTHER -> MessageUnknownSkill(uuid, TEXT, skill_id)
        ELSE IF content.type = JSON
        THEN CASE skill_id = "planner_agent" ->
                      InvokeWith("planner_agent", context,
                                 AttrGet(content.content, "user_request", PyStr("")))
               [] skill_id = "executor_agent" ->
                      Invoke("executor_agent", context, content.content, FALSE)
               [] skill_id = "auditor_agent" ->
                      Invoke("auditor_agent", context, content.content, FALSE)
               [] skill_id = "full_stack_agent" ->
                      InvokeWith("full_stack_agent", context,
                                 AttrGet(content.content, "prompt", PyStr("")))
               [] OTHER -> MessageUnknownSkill(uuid, JSON, skill_id)
        ELSE MessageUnsupported(uuid, content.type)

\* Which handler takes an exception raised in the try: the inner one takes a
\* JSONDecodeError raised where it guards (the decoding of the text and the
\* skill call after it), the top one everything else.
MessageHandle(uuid, guarded, e) ==
    IF guarded /\ IsJSONDecodeError(e) THEN DecodeExcept(uuid) ELSE MessageExcept(uuid, e)

\* Whether a raise of the code before the await stands inside the inner try:
\* only the decoding for the two structured-only skills does.
GuardedRoute(message) ==
    message.content.type = TEXT /\ SkillIdOf(message) \in StructuredOnlySkills

-----------------------------------------------------------------------------
(* The requests the model sends *)

\* Payloads: structured values, documents of structured values, and text
\* that is no document (plain words, a document cut short).
Payloads ==
    { GoodPlan, BadComponentsPlan, RequestFields, EmptyDict, NameList }
        \cup { PyStr(json_dumps(j)) :
                 j \in { GoodPlan, BadComponentsPlan, BadOptimizationsPlan, EmptyDict,
                         NameList, PyStr("plan"), PyNone } }
        \cup { PyStr("plan"), PyStr("{\"components\": [") }

\* Ids that are not in the registry: a stranger, the start of a registered
\* id, the id Protocol-B falls back to, a registered id in another case.
UnknownIdPool == <<"ghost_agent", "planner", "default_skill", "Planner_Agent">>
UnknownIds == {UnknownIdPool[i] : i \in 1 .. Min(MaxUnknownIds, Len(UnknownIdPool))}

SkillIds == RegisteredSkills \cup UnknownIds

ContentTypes == {TEXT_PLAIN, APPLICATION_JSON, "image/png"}

ContentKinds == {TEXT, JSON, "binary"}

\* Metadata with a skill id, without one, and without one but not empty.
Metadatas ==
    { [k \in {"skill_id"} |-> id] : id \in SkillIds }
        \cup { <<>>, [k \in {"trace"} |-> "t1"] }

Messages ==
    { MCPMessage("m1", MCPMessageContent(type, payload), metadata) :
        type \in ContentKinds, payload \in Payloads, metadata \in Metadatas }

\* str(uuid4()): some fresh identifier.
Uuids == {"uuid-" \o ToString(i) : i \in 1 .. MaxUuids}

NoReq == [proto |-> "none"]
NoPending == [step |-> "none"]
NoResp == [how |-> "none"]

-----------------------------------------------------------------------------
(* The state machine *)

\* create_a2a_server_with_mcp builds both executors around the same agent
\* function, each with a context of its own.
Init ==
    /\ \E agent_func \in RegisteredSkills :
          executor = [A |-> [agent_func |-> agent_func, context |-> "a2a_context"],
                      B |-> [agent_func |-> agent_func, context |-> "mcp_context"]]
    /\ pc = [r \in Slots |-> "idle"]
    /\ req = [r \in Slots |-> NoReq]
    /\ pending = [r \in Slots |-> NoPending]
    /\ calls = [r \in Slots |-> <<>>]
    /\ fault = [r \in Slots |-> NoFault]
    /\ resp = [r \in Slots |-> NoResp]

\* A call runs from its entry to its first await or to its return: it
\* suspends in the skill it calls, returns what the code returns, or ends in
\* the handler of the exception a statement raised.
Begin(r, request, step, handled) ==
    /\ pc[r] = "idle"
    /\ req' = [req EXCEPT ![r] = request]
    /\ pc' = [pc EXCEPT ![r] = IF step.step = "invoke" THEN "awaiting" ELSE "done"]
    /\ pending' = [pending EXCEPT ![r] = IF step.step = "invoke" THEN step ELSE NoPending]
    /\ calls' = [calls EXCEPT ![r] =
                    IF step.step = "invoke"
                    THEN Append(@, [skill |-> step.skill, context |-> step.context,
                                    arg |-> step.arg])
                    ELSE @]
    /\ fault' = [fault EXCEPT ![r] = IF step.step = "raise" THEN step.fault ELSE @]
    /\ resp' = [resp EXCEPT ![r] =
                   CASE step.step = "invoke" -> @
                     [] step.step = "return" -> Returned(step.value)
                     [] step.step = "raise" -> handled]
    /\ UNCHANGED executor

\* GenAIAgentExecutor.execute(content, skill_id, content_type), to its await.
ExecuteCalled(r, content, skill_id, content_type) ==
    LET step == ExecuteRoute(executor.A.context, content, skill_id, content_type) IN
    Begin(r,
          [proto |-> "A", content |-> content, skill_id |-> skill_id,
           content_type |-> content_type],
          step,
          IF step.step = "raise" THEN ExecuteExcept(step.fault) ELSE NoResp)

CallExecute(r) ==
    \E content \in Payloads, skill_id \in SkillIds, content_type \in ContentTypes :
        ExecuteCalled(r, content, skill_id, content_type)

\* MCPAgentExecutor.execute_message(message), to its await; uuid is the
\* envelope id it generates if it returns before one.
MessageCalled(r, message, uuid) ==
    LET step == MessageRoute(executor.B.context, message, uuid) IN
    Begin(r,
          [proto |-> "B", message |-> message],
          step,
          IF step.step = "raise"
          THEN MessageHandle(uuid, GuardedRoute(message), step.fault)
          ELSE NoResp)

CallExecuteMessage(r) ==
    \E message \in Messages, uuid \in Uuids : MessageCalled(r, message, uuid)

\* The Text wrapping copied into the Structured branch.
MessageResultAlwaysText(uuid, message, result) ==
    Returned(ResultMessage(uuid, TEXT, SkillIdOf(message), result))

\* What execute_message returns for the result of the awaited skill.
MessageResult(uuid, message, result) ==
    IF message.content.type = TEXT
    THEN Returned(ResultMessage(uuid, TEXT, SkillIdOf(message), result))
    ELSE Returned(ResultMessage(uuid, JSON, SkillIdOf(message), result))

\* A handler that calls the failed skill a second time.
ExceptRetries(call, e) == <<call>>

\* The skill invocations an except clause makes for the exception of a
\* call: none, both clauses only build the error they return.
ExceptInvocations(call, e) == <<>>

\* An executor that keeps the arguments of a call in a field of its own, which
\* the latest call in flight has overwritten.
LocalsOfLatestCall(r) ==
    req[CHOOSE s \in DOMAIN pc :
            pc[s] # "idle" /\ \A q \in DOMAIN pc : pc[q] # "idle" => q <= s]

\* The arguments and local variables a call finds when it resumes after its
\* await: its own, held in the frame of its coroutine.
Locals(r) == req[r]

\* The awaited skill finishes and the call runs to its return: the result is
\* wrapped, or the exception the skill raised is handled.
SkillCompletes(r) ==
    /\ pc[r] = "awaiting"
    /\ \E outcome \in SkillOutcomes(pending[r].skill, pending[r].context, pending[r].arg),
          uuid \in Uuids :
          /\ fault' = [fault EXCEPT ![r] = IF outcome.ok THEN @ ELSE outcome.val]
          /\ calls' = [calls EXCEPT ![r] =
                IF outcome.ok THEN @
                ELSE @ \o ExceptInvocations(@[Len(@)], outcome.val)]
          /\ resp' = [resp EXCEPT ![r] =
                IF Locals(r).proto = "A"
                THEN IF outcome.ok THEN ExecuteResult(outcome.val)
                                   ELSE ExecuteExcept(outcome.val)
                ELSE IF outcome.ok THEN MessageResult(uuid, Locals(r).message, outcome.val)
                                   ELSE MessageHandle(uuid, pending[r].guarded, outcome.val)]
    /\ pc' = [pc EXCEPT ![r] = "done"]
    /\ pending' = [pending EXCEPT ![r] = NoPending]
    /\ UNCHANGED <<executor, req>>

\* The caller has its response; nothing of the call is kept.
Respond(r) ==
    /\ pc[r] = "done"
    /\ pc' = [pc EXCEPT ![r] = "idle"]
    /\ req' = [req EXCEPT ![r] = NoReq]
    /\ calls' = [calls EXCEPT ![r] = <<>>]
    /\ fault' = [fault EXCEPT ![r] = NoFault]
    /\ resp' = [resp EXCEPT ![r] = NoResp]
    /\ UNCHANGED <<executor, pending>>

Next ==
    \E r \in DOMAIN pc :
        \/ CallExecute(r)
        \/ CallExecuteMessage(r)
        \/ SkillCompletes(r)
        \/ Respond(r)

Spec == Init /\ [][Next]_vars

-----------------------------------------------------------------------------
(* The same call made twice *)

\* The state after construction, for the given call slots.
InitOn(slots) ==
    /\ \E agent_func \in RegisteredSkills :
          executor = [A |-> [agent_func |-> agent_func, context |-> "a2a_context"],
                      B |-> [agent_func |-> agent_func, context |-> "mcp_context"]]
    /\ pc = [r \in slots |-> "idle"]
    /\ req = [r \in slots |-> NoReq]
    /\ pending = [r \in slots |-> NoPending]
    /\ calls = [r \in slots |-> <<>>]
    /\ fault = [r \in slots |-> NoFault]
    /\ resp = [r \in slots |-> NoResp]

InitTwice == InitOn({1, 2})

\* execute called again, on the same executor, with the arguments of the
\* call that has finished.
RepeatExecute ==
    /\ pc[1] = "done" /\ req[1].proto = "A"
    /\ ExecuteCalled(2, req[1].content, req[1].skill_id, req[1].content_type)

\* execute_message called again with the envelope of the call that has finished.
RepeatExecuteMessage ==
    /\ pc[1] = "done" /\ req[1].proto = "B"
    /\ \E uuid \in Uuids : MessageCalled(2, req[1].message, uuid)

\* Both callers have their responses.
RespondBoth ==
    /\ \A r \in DOMAIN pc : pc[r] = "done"
    /\ pc' = [r \in DOMAIN pc |-> "idle"]
    /\ req' = [r \in DOMAIN pc |-> NoReq]
    /\ calls' = [r \in DOMAIN pc |-> <<>>]
    /\ fault' = [r \in DOMAIN pc |-> NoFault]
    /\ resp' = [r \in DOMAIN pc |-> NoResp]
    /\ UNCHANGED <<executor, pending>>

NextTwice ==
    \/ CallExecute(1)
    \/ CallExecuteMessage(1)
    \/ RepeatExecute
    \/ RepeatExecuteMessage
    \/ \E r \in DOMAIN pc : SkillCompletes(r)
    \/ RespondBoth

SpecTwice == InitTwice /\ [][NextTwice]_vars

-----------------------------------------------------------------------------
(* Several calls in flight *)

\* The calls in flight together on the executors.
InFlight == {1, 2}

InitConcurrent == InitOn(InFlight)

\* What the calls in flight together are made with: a plan, its document and
\* a text that is no document, each as either kind, for a skill that takes
\* text, a skill that needs a plan, the skill with several outcomes, and an
\* id that is not registered.
ConcurrentPayloads == {GoodPlan, PyStr(json_dumps(GoodPlan)), PyStr("plan")}
ConcurrentIds == {"planner_agent", "executor_agent", "full_stack_agent", "ghost_agent"}
ConcurrentMessages ==
    { MCPMessage("m1", MCPMessageContent(type, payload), [k \in {"skill_id"} |-> id]) :
        type \in {TEXT, JSON}, payload \in ConcurrentPayloads, id \in ConcurrentIds }

SubmitExecute(r) ==
    \E content \in ConcurrentPayloads, skill_id \in ConcurrentIds,
       content_type \in {TEXT_PLAIN, APPLICATION_JSON} :
        ExecuteCalled(r, content, skill_id, content_type)

SubmitExecuteMessage(r) ==
    \E message \in ConcurrentMessages, uuid \in Uuids : MessageCalled(r, message, uuid)

\* The event loop runs one call at a time to its next await or to its
\* return, in any order.
NextConcurrent ==
    \E r \in DOMAIN pc :
        \/ SubmitExecute(r)
        \/ SubmitExecuteMessage(r)
        \/ SkillCompletes(r)
        \/ Respond(r)

SpecConcurrent == InitConcurrent /\ [][NextConcurrent]_vars

-----------------------------------------------------------------------------
(* auditor_agent over the plans a planner can hand it *)

\* The optimizations the auditor knows, in the order it tests them.
OptimizationNames == [i \in DOMAIN Heuristics |-> Heuristics[i].opt]

\* Component names: the first two between them hold a keyword of every
\* heuristic.
ComponentPool == <<"SearchableDataTable", "LiveThemedImageDashboardAnimation", "PhotoGrid">>

\* The lists of at most MaxComponents of these names, in the order of the
\* pool and without repeats: any() asks only whether some name of the list
\* holds a keyword.
ComponentLists ==
    { SelectSeq(ComponentPool, LAMBDA c : c \in chosen) :
        chosen \in SUBSET {ComponentPool[i] :
                              i \in 1 .. Min(MaxComponents, Len(ComponentPool))} }

\* {"optimizations": [...], "components": [...]}: any set of the known
\* optimizations with any list of component names.
AuditPlan(chosen, names) ==
    PyDict([k \in {"optimizations", "components"} |->
               IF k = "optimizations"
               THEN PyList([i \in 1 .. Len(chosen) |-> PyStr(chosen[i])])
               ELSE PyList([i \in 1 .. Len(names) |-> PyStr(names[i])])])

AuditPlans ==
    { AuditPlan(SelectSeq(OptimizationNames, LAMBDA o : o \in chosen), names) :
        chosen \in SUBSET {OptimizationNames[i] : i \in DOMAIN OptimizationNames},
        names \in ComponentLists }

\* The server of the auditor.
InitAudit ==
    /\ executor = [A |-> [agent_func |-> "auditor_agent", context |-> "a2a_context"],
                   B |-> [agent_func |-> "auditor_agent", context |-> "mcp_context"]]
    /\ pc = [r \in Slots |-> "idle"]
    /\ req = [r \in Slots |-> NoReq]
    /\ pending = [r \in Slots |-> NoPending]
    /\ calls = [r \in Slots |-> <<>>]
    /\ fault = [r \in Slots |-> NoFault]
    /\ resp = [r \in Slots |-> NoResp]

\* execute(plan, "auditor_agent", "application/json")
SubmitAudit(r) ==
    /\ pc[r] = "idle"
    /\ \E plan \in AuditPlans :
          ExecuteCalled(r, plan, "auditor_agent", APPLICATION_JSON)

NextAudit ==
    \E r \in DOMAIN pc :
        \/ SubmitAudit(r)
        \/ SkillCompletes(r)
        \/ Respond(r)

SpecAudit == InitAudit /\ [][NextAudit]_vars

-----------------------------------------------------------------------------
(* What the properties speak of *)

Finished(r) == pc[r] = "done"
ProtocolA(r) == req[r].proto = "A"
ProtocolB(r) == req[r].proto = "B"

\* The results the skill of an invocation can return.
ResultsOf(call) ==
    {o.val : o \in {x \in SkillOutcomes(call.skill, call.context, call.arg) : x.ok}}

\* A well-formed envelope: an id, typed content, metadata.
IsEnvelope(m) ==
    /\ DOMAIN m = {"id", "content", "metadata"}
    /\ m.id \in Uuids
    /\ DOMAIN m.content = {"type", "content"}
    /\ m.content.type \in {TEXT, JSON}

\* m is the error envelope of the given kind for the given message: the
\* message in the payload and the same message under metadata.error only.
IsErrorEnvelope(m, type, message) ==
    /\ IsEnvelope(m)
    /\ m.content.type = type
    /\ m.content.content = IF type = TEXT THEN PyStr(json_dumps(ErrorMap(message)))
                                         ELSE ErrorMap(message)
    /\ DOMAIN m.metadata = {"error"}
    /\ m.metadata["error"] = message

\* m is a success envelope: metadata carries the skill id and nothing else.
IsSuccessEnvelope(m, skill_id) ==
    /\ IsEnvelope(m)
    /\ DOMAIN m.metadata = {"skill_id"}
    /\ m.metadata["skill_id"] = skill_id

\* The exception of the call was taken by the inner handler of the decoding.
TakenByDecodeHandler(r) ==
    /\ GuardedRoute(req[r].message)
    /\ fault[r].cls = "JSONDecodeError"

-----------------------------------------------------------------------------
(* C1 *)

\* C1: execute_message always hands its caller an envelope and never lets an
\* exception through.  An exception raised by field extraction, by the
\* decoding or by the skill ends in a Text error envelope whose payload is
\* the serialised {error: message} and whose metadata.error is that message:
\* the exception's own message when the top handler takes it, the fixed
\* "Invalid JSON input" when the decoding failed.
C1_MessageFaultBoundary ==
    \A r \in DOMAIN pc :
        (Finished(r) /\ ProtocolB(r)) =>
            /\ resp[r].how = "returned"
            /\ IsEnvelope(resp[r].value)
            /\ fault[r] # NoFault =>
                 IsErrorEnvelope(resp[r].value, TEXT,
                                 IF TakenByDecodeHandler(r) THEN "Invalid JSON input"
                                                            ELSE fault[r].msg)

\* A skill raised while serving a Structured request, and the call has returned.
C1_Witness ==
    \E r \in DOMAIN pc :
        /\ Finished(r) /\ ProtocolB(r)
        /\ req[r].message.content.type = JSON
        /\ calls[r] # <<>>
        /\ fault[r].cls = "TypeError"

-----------------------------------------------------------------------------
(* C2 *)

\* C2: execute always returns, and what it returns is the result of the
\* skill it invoked or, when the skill or the field extraction raised, the
\* mapping {error: message of the exception}.
C2_ExecuteFaultBoundary ==
    \A r \in DOMAIN pc :
        (Finished(r) /\ ProtocolA(r)) =>
            /\ resp[r].how = "returned"
            /\ fault[r] # NoFault => resp[r].value = ErrorMap(fault[r].msg)
            /\ (fault[r] = NoFault /\ calls[r] # <<>>) =>
                   resp[r].value \in ResultsOf(calls[r][1])
            /\ (fault[r] = NoFault /\ calls[r] = <<>>) =>
                   (resp[r].value.ty = "dict" /\ DOMAIN resp[r].value.v = {"error"})

\* Structured content that is no mapping reached a skill, which raised.
C2_Witness ==
    \E r \in DOMAIN pc :
        /\ Finished(r) /\ ProtocolA(r)
        /\ req[r].content_type = APPLICATION_JSON
        /\ req[r].content.ty # "dict"
        /\ calls[r] # <<>>
        /\ fault[r].cls = "AttributeError"
        /\ resp[r].how = "returned"

-----------------------------------------------------------------------------
(* C3 *)

\* The skill id a call resolves.
ResolvedId(r) == IF ProtocolA(r) THEN req[r].skill_id ELSE SkillIdOf(req[r].message)

\* The error message a response carries, "" when it carries none.
ErrorOf(r) ==
    IF ProtocolA(r)
    THEN IF resp[r].value.ty = "dict" /\ DOMAIN resp[r].value.v = {"error"}
         THEN resp[r].value.v["error"].v ELSE ""
    ELSE IF \E m \in {MetadataGet(resp[r].value.metadata, "error", "")} :
                 IsErrorEnvelope(resp[r].value, resp[r].value.content.type, m)
         THEN resp[r].value.metadata["error"] ELSE ""

\* C3: a call naming a skill id outside the registry (execute with any
\* content type, execute_message with Text or Structured content) invokes no
\* skill and returns an error payload whose message contains the id.
C3_UnknownSkillNamed ==
    \A r \in DOMAIN pc :
        (/\ pc[r] # "idle"
         /\ ResolvedId(r) \notin RegisteredSkills
         /\ ProtocolB(r) => req[r].message.content.type \in {TEXT, JSON}) =>
            /\ Finished(r)
            /\ calls[r] = <<>>
            /\ resp[r].how = "returned"
            /\ ErrorOf(r) # ""
            /\ StrContains(ResolvedId(r), ErrorOf(r))

\* An unknown id went through execute with Text content.
C3_Witness ==
    \E r \in DOMAIN pc :
        /\ Finished(r) /\ ProtocolA(r)
        /\ req[r].skill_id = "ghost_agent"
        /\ req[r].content_type = TEXT_PLAIN
        /\ calls[r] = <<>>
        /\ StrContains("ghost_agent", ErrorOf(r))

-----------------------------------------------------------------------------
(* C4 *)

\* A Text envelope for one of the two structured-only skills.
TextForStructuredOnly(r) ==
    /\ ProtocolB(r)
    /\ req[r].message.content.type = TEXT
    /\ SkillIdOf(req[r].message) \in StructuredOnlySkills

\* C4: for a structured-only skill and a Text envelope, the "Invalid JSON
\* input" envelope is returned only when the text did not decode, and then
\* no skill was invoked.
C4_InvalidJsonOnlyOnParseFailure ==
    \A r \in DOMAIN pc :
        (/\ Finished(r) /\ TextForStructuredOnly(r)
         /\ IsErrorEnvelope(resp[r].value, TEXT, "Invalid JSON input")) =>
            /\ ~json_loads(req[r].message.content.content).ok
            /\ json_loads(req[r].message.content.content).val.cls = "JSONDecodeError"
            /\ calls[r] = <<>>

\* Text that is no document, sent to executor_agent, got the fixed message.
C4_Witness ==
    \E r \in DOMAIN pc :
        /\ Finished(r) /\ TextForStructuredOnly(r)
        /\ req[r].message.content.content = PyStr("plan")
        /\ IsErrorEnvelope(resp[r].value, TEXT, "Invalid JSON input")
        /\ calls[r] = <<>>

-----------------------------------------------------------------------------
(* C5 *)

StructuredRequest(r) == ProtocolB(r) /\ req[r].message.content.type = JSON

\* C5 as claimed: a Structured request is answered with Structured content on
\* every path it can take: success, unknown skill, an exception of the skill
\* or of the field extraction.
C5_StructuredAlwaysMirrored ==
    \A r \in DOMAIN pc :
        (Finished(r) /\ StructuredRequest(r)) => resp[r].value.content.type = JSON

\* C5, amended: a Structured request is answered with Structured content when
\* the skill returned and when the skill id is unknown; when the skill or the
\* field extraction raised, the answer is the Text error envelope of the top
\* handler.
C5_StructuredMirroredUnlessFault ==
    \A r \in DOMAIN pc :
        (Finished(r) /\ StructuredRequest(r)) =>
            /\ fault[r] = NoFault => resp[r].value.content.type = JSON
            /\ fault[r] # NoFault => IsErrorEnvelope(resp[r].value, TEXT, fault[r].msg)
            /\ (ResolvedId(r) \notin RegisteredSkills) =>
                   IsErrorEnvelope(resp[r].value, JSON, "Unknown skill ID: " \o ResolvedId(r))

\* The field extraction raised on a Structured payload that is no mapping,
\* and the answer is Text.
C5_Witness ==
    \E r \in DOMAIN pc :
        /\ Finished(r) /\ StructuredRequest(r)
        /\ calls[r] = <<>>
        /\ fault[r].cls = "AttributeError"
        /\ resp[r].value.content.type = TEXT

-----------------------------------------------------------------------------
(* C6 *)

\* A plan as the skills expect it: a mapping whose components and
\* optimizations, where present, are lists of strings.
WellFormedPlan(x) ==
    /\ x.ty = "dict"
    /\ \A k \in {"components", "optimizations"} \cap DOMAIN x.v :
           /\ x.v[k].ty = "list"
           /\ \A i \in DOMAIN x.v[k].v : x.v[k].v[i].ty = "str"

\* The content of a call and whether the call declares it Text or Structured.
ContentOf(r) == IF ProtocolA(r) THEN req[r].content ELSE req[r].message.content.content
DeclaredText(r) ==
    IF ProtocolA(r) THEN req[r].content_type = TEXT_PLAIN
                    ELSE req[r].message.content.type = TEXT
DeclaredStructured(r) ==
    IF ProtocolA(r) THEN req[r].content_type = APPLICATION_JSON
                    ELSE req[r].message.content.type = JSON

\* A registered skill with well-formed input in its declared mode: text for
\* the two text skills, a well-formed plan for the two structured-only ones.
WellFormedRequest(r) ==
    \/ /\ ResolvedId(r) \in RegisteredSkills \ StructuredOnlySkills
       /\ DeclaredText(r)
       /\ ContentOf(r).ty = "str"
    \/ /\ ResolvedId(r) \in StructuredOnlySkills
       /\ DeclaredStructured(r)
       /\ WellFormedPlan(ContentOf(r))

\* The payload a finished call answered with.
PayloadOf(r) == IF ProtocolA(r) THEN resp[r].value ELSE resp[r].value.content.content

\* C6 as claimed: on success the kind of the payload follows the request: a
\* Text request gets text, a Structured request gets a structured value,
\* whatever the skill returned.
C6_PayloadKindFollowsRequest ==
    \A r \in DOMAIN pc :
        (Finished(r) /\ WellFormedRequest(r) /\ fault[r] = NoFault) =>
            /\ DeclaredText(r) => PayloadOf(r).ty = "str"
            /\ DeclaredStructured(r) => PayloadOf(r).ty \in {"dict", "list"}

\* C6, amended: on success execute_message answers with the content kind of
\* the request; its Text payload is always text (the result serialised when
\* it is a mapping, printed otherwise) and its Structured payload is the
\* skill's result as returned, which is text for executor_agent; execute
\* returns the skill's result as returned, whatever the content type.
C6_KindMirroredPayloadAsReturned ==
    \A r \in DOMAIN pc :
        (Finished(r) /\ WellFormedRequest(r) /\ fault[r] = NoFault) =>
            /\ Len(calls[r]) = 1
            /\ ProtocolA(r) => resp[r].value \in ResultsOf(calls[r][1])
            /\ ProtocolB(r) =>
                 /\ IsSuccessEnvelope(resp[r].value, ResolvedId(r))
                 /\ resp[r].value.content.type = req[r].message.content.type
                 /\ DeclaredText(r) =>
                      /\ PayloadOf(r).ty = "str"
                      /\ \E x \in ResultsOf(calls[r][1]) :
                            PayloadOf(r).v = IF x.ty = "dict" THEN json_dumps(x) ELSE x.v
                 /\ DeclaredStructured(r) => PayloadOf(r) \in ResultsOf(calls[r][1])

\* executor_agent answered a well-formed Structured envelope: the envelope
\* is Structured and its payload is the text the skill returned.
C6_Witness ==
    \E r \in DOMAIN pc :
        /\ Finished(r) /\ WellFormedRequest(r) /\ fault[r] = NoFault
        /\ StructuredRequest(r)
        /\ ResolvedId(r) = "executor_agent"
        /\ resp[r].value.content.type = JSON
        /\ PayloadOf(r).ty = "str"

-----------------------------------------------------------------------------
(* C7 *)

\* The value the text of a call decodes to.
Decoded(r) == json_loads(req[r].message.content.content)

\* C7 as claimed: whenever the text for a structured-only skill decodes, to a
\* mapping or not, the skill is invoked once with the decoded value and the
\* answer is a success envelope.
C7_AnyDecodedValueSucceeds ==
    \A r \in DOMAIN pc :
        (Finished(r) /\ TextForStructuredOnly(r) /\ Decoded(r).ok) =>
            /\ Len(calls[r]) = 1
            /\ calls[r][1].arg = Decoded(r).val
            /\ IsSuccessEnvelope(resp[r].value, ResolvedId(r))

\* C7, amended: whenever the text for a structured-only skill decodes, the
\* skill named is invoked exactly once with the decoded value; the answer is
\* a success envelope when the value is a well-formed plan, and the Text
\* error envelope of the exception the skill raises when the value is no
\* mapping.
C7_DecodedPlanSucceeds ==
    \A r \in DOMAIN pc :
        (Finished(r) /\ TextForStructuredOnly(r) /\ Decoded(r).ok) =>
            /\ Len(calls[r]) = 1
            /\ calls[r][1].skill = ResolvedId(r)
            /\ calls[r][1].arg = Decoded(r).val
            /\ WellFormedPlan(Decoded(r).val) =>
                   IsSuccessEnvelope(resp[r].value, ResolvedId(r))
            /\ Decoded(r).val.ty # "dict" =>
                   IsErrorEnvelope(resp[r].value, TEXT,
                                   "'" \o TypeName(Decoded(r).val)
                                       \o "' object has no attribute 'get'")

\* auditor_agent was invoked with the plan decoded from the text and the
\* answer is a success envelope.
C7_Witness ==
    \E r \in DOMAIN pc :
        /\ Finished(r) /\ TextForStructuredOnly(r)
        /\ ResolvedId(r) = "auditor_agent"
        /\ Decoded(r).ok /\ Decoded(r).val = GoodPlan
        /\ calls[r] = <<[skill |-> "auditor_agent", context |-> executor.B.context,
                         arg |-> GoodPlan]>>
        /\ IsSuccessEnvelope(resp[r].value, "auditor_agent")

-----------------------------------------------------------------------------
(* C8 *)

\* C8: the metadata of every envelope execute_message returns marks its
\* outcome: after a skill returned, skill_id with the resolved id and no
\* error key; on every error path (unknown skill, invalid JSON, unsupported
\* kind, an exception taken by a handler) the error key with the message the
\* payload embeds, and no skill_id key.
C8_MetadataMarksOutcome ==
    \A r \in DOMAIN pc :
        (Finished(r) /\ ProtocolB(r)) =>
            IF calls[r] # <<>> /\ fault[r] = NoFault
            THEN IsSuccessEnvelope(resp[r].value, ResolvedId(r))
            ELSE /\ DOMAIN resp[r].value.metadata = {"error"}
                 /\ IsErrorEnvelope(resp[r].value, resp[r].value.content.type,
                                    resp[r].value.metadata["error"])

\* An unknown skill in a Structured envelope: the error is in the payload and
\* in the metadata, and there is no skill_id.
C8_Witness ==
    \E r \in DOMAIN pc :
        /\ Finished(r) /\ StructuredRequest(r)
        /\ ResolvedId(r) = "ghost_agent"
        /\ resp[r].value.metadata = [k \in {"error"} |-> "Unknown skill ID: ghost_agent"]
        /\ resp[r].value.content.content = ErrorMap("Unknown skill ID: ghost_agent")

-----------------------------------------------------------------------------
(* C9 *)

UnsupportedKind(r) == ProtocolB(r) /\ req[r].message.content.type \notin {TEXT, JSON}

\* C9: an envelope whose content kind is neither Text nor Structured is
\* answered at once, without any skill being invoked, by the Text error
\* envelope "Unsupported content type: <kind>", whatever skill id the
\* metadata holds or lacks.
C9_UnsupportedKindIsTextError ==
    \A r \in DOMAIN pc :
        (pc[r] # "idle" /\ UnsupportedKind(r)) =>
            /\ Finished(r)
            /\ calls[r] = <<>>
            /\ fault[r] = NoFault
            /\ resp[r].how = "returned"
            /\ IsErrorEnvelope(resp[r].value, TEXT,
                               "Unsupported content type: "
                                   \o req[r].message.content.type)

\* A binary envelope naming a registered skill was refused.
C9_Witness ==
    \E r \in DOMAIN pc :
        /\ Finished(r) /\ UnsupportedKind(r)
        /\ ResolvedId(r) = "planner_agent"
        /\ IsErrorEnvelope(resp[r].value, TEXT, "Unsupported content type: binary")

-----------------------------------------------------------------------------
(* C10 *)

\* C10: with Text content, execute answers "Skill <id> requires JSON input",
\* invoking nothing, exactly for the registered structured-only skills; it
\* invokes the two text skills with the raw text; and an id outside the
\* registry is answered "Unknown skill ID: <id>".
C10_RequiresJsonOnlyForRegistered ==
    \A r \in DOMAIN pc :
        (Finished(r) /\ ProtocolA(r) /\ req[r].content_type = TEXT_PLAIN) =>
            /\ (/\ resp[r].value = ErrorMap("Skill " \o req[r].skill_id
                                               \o " requires JSON input")
                /\ calls[r] = <<>>)
                   <=> req[r].skill_id \in StructuredOnlySkills
            /\ req[r].skill_id \in RegisteredSkills \ StructuredOnlySkills =>
                   calls[r] = <<[skill |-> req[r].skill_id,
                                 context |-> executor.A.context,
                                 arg |-> req[r].content]>>
            /\ req[r].skill_id \notin RegisteredSkills =>
                   resp[r].value = ErrorMap("Unknown skill ID: " \o req[r].skill_id)

-----------------------------------------------------------------------------
(* C11 *)

\* C11: each request is handled at most once.  During one call of execute or
\* execute_message at most one skill invocation is made; once the call has
\* an exception or a response, no further invocation is made for it; and the
\* call ends with exactly one response, which is never replaced.
C11_HandledAtMostOnce ==
    /\ [](\A r \in DOMAIN pc :
            /\ Len(calls[r]) <= 1
            /\ pc[r] = "awaiting" => (Len(calls[r]) = 1 /\ resp[r] = NoResp)
            /\ Finished(r) => resp[r].how = "returned")
    /\ [][\A r \in DOMAIN pc :
            /\ (fault[r] # NoFault \/ resp[r] # NoResp) =>
                   (calls'[r] = calls[r] \/ pc'[r] = "idle")
            /\ (pc[r] = "awaiting" /\ fault'[r] # NoFault) => calls'[r] = calls[r]
            /\ resp[r] # NoResp => (resp'[r] = resp[r] \/ pc'[r] = "idle")]_vars

\* A skill raised: the call has its one invocation, its error response, and
\* no second invocation.
C11_Witness ==
    \E r \in DOMAIN pc :
        /\ Finished(r)
        /\ Len(calls[r]) = 1
        /\ fault[r] # NoFault
        /\ resp[r].how = "returned"

-----------------------------------------------------------------------------
(* C12 *)

\* The value a skill is to receive from a mapping: the user_request field
\* for planner_agent, the prompt field for full_stack_agent, the empty string
\* when the field is absent, and the mapping itself for the other two.
ProjectedFor(skill_id, mapping) ==
    CASE skill_id = "planner_agent" ->
             IF "user_request" \in DOMAIN mapping.v THEN mapping.v["user_request"]
                                                    ELSE PyStr("")
      [] skill_id = "full_stack_agent" ->
             IF "prompt" \in DOMAIN mapping.v THEN mapping.v["prompt"] ELSE PyStr("")
      [] OTHER -> mapping

StructuredMappingToExecute(r) ==
    /\ pc[r] # "idle" /\ ProtocolA(r)
    /\ req[r].content_type = APPLICATION_JSON
    /\ req[r].content.ty = "dict"
    /\ req[r].skill_id \in RegisteredSkills

\* C12: execute with Structured content that is a mapping invokes the named
\* skill with the value projected for it: planner_agent with the value of
\* user_request, full_stack_agent with the value of prompt (the empty string
\* when the field is absent, never the whole mapping), executor_agent and
\* auditor_agent with the whole mapping unchanged.
C12_StructuredProjection ==
    \A r \in DOMAIN pc :
        StructuredMappingToExecute(r) =>
            /\ calls[r] = <<[skill |-> req[r].skill_id,
                             context |-> executor.A.context,
                             arg |-> ProjectedFor(req[r].skill_id, req[r].content)]>>
            /\ req[r].skill_id \notin StructuredOnlySkills =>
                   calls[r][1].arg # req[r].content
            /\ req[r].skill_id \in StructuredOnlySkills =>
                   calls[r][1].arg = req[r].content

\* planner_agent was invoked with the string held under user_request.
C12_Witness ==
    \E r \in DOMAIN pc :
        /\ StructuredMappingToExecute(r)
        /\ req[r].skill_id = "planner_agent"
        /\ req[r].content = RequestFields
        /\ calls[r] = <<[skill |-> "planner_agent", context |-> executor.A.context,
                         arg |-> PyStr("plan")]>>

-----------------------------------------------------------------------------
(* C13 *)

\* What a routing step decided, without its wrapping: the skill and the
\* argument it invokes, the message of the error it reports, or the
\* exception raised before any invocation.
DecisionOfExecute(step) ==
    CASE step.step = "invoke" -> [kind |-> "invoke", skill |-> step.skill, arg |-> step.arg]
      [] step.step = "return" -> [kind |-> "error", message |-> step.value.v["error"].v]
      [] step.step = "raise" -> [kind |-> "raise", fault |-> step.fault]

DecisionOfMessage(step) ==
    CASE step.step = "invoke" -> [kind |-> "invoke", skill |-> step.skill, arg |-> step.arg]
      [] step.step = "return" -> [kind |-> "error", message |-> step.value.metadata["error"]]
      [] step.step = "raise" -> [kind |-> "raise", fault |-> step.fault]

\* What the call in a slot decided, read from what it did.
DecisionTaken(r) ==
    IF calls[r] # <<>>
    THEN [kind |-> "invoke", skill |-> calls[r][1].skill, arg |-> calls[r][1].arg]
    ELSE IF fault[r] # NoFault
    THEN [kind |-> "raise", fault |-> fault[r]]
    ELSE [kind |-> "error", message |-> ErrorOf(r)]

\* The Structured envelope with the same payload and skill id as a call of execute.
SameAsMessage(r) ==
    MCPMessage("m1", MCPMessageContent(JSON, req[r].content),
               [k \in {"skill_id"} |-> req[r].skill_id])

\* C13: the Structured branches of execute_message and of execute decide
\* alike.  What a Structured call of execute_message did (the skill and the
\* argument it invoked, the unknown-skill message it reported, the exception
\* of the field extraction) is what execute decides for the same skill id
\* and payload, and what a Structured call of execute did is what
\* execute_message decides for them.
C13_StructuredBranchesAgree ==
    \A r \in DOMAIN pc :
        /\ (pc[r] # "idle" /\ StructuredRequest(r)) =>
              DecisionTaken(r) =
                  DecisionOfExecute(ExecuteRoute(executor.A.context,
                                                 req[r].message.content.content,
                                                 ResolvedId(r), APPLICATION_JSON))
        /\ (pc[r] # "idle" /\ ProtocolA(r) /\ req[r].content_type = APPLICATION_JSON) =>
              DecisionTaken(r) =
                  DecisionOfMessage(MessageRoute(executor.B.context, SameAsMessage(r),
                                                 CHOOSE u \in Uuids : TRUE))

\* A Structured envelope for planner_agent whose payload holds a user_request:
\* the skill got the field, as execute gives it.
C13_Witness ==
    \E r \in DOMAIN pc :
        /\ pc[r] # "idle" /\ StructuredRequest(r)
        /\ ResolvedId(r) = "planner_agent"
        /\ req[r].message.content.content = RequestFields
        /\ calls[r] # <<>>
        /\ calls[r][1].arg = PyStr("plan")

-----------------------------------------------------------------------------
(* C14 *)

\* A Text envelope whose skill returned.
TextSuccess(r) ==
    /\ Finished(r) /\ ProtocolB(r)
    /\ req[r].message.content.type = TEXT
    /\ calls[r] # <<>>
    /\ fault[r] = NoFault

\* C14: in a Text success response, when the skill returned a structured
\* value, decoding the payload gives back exactly that value; when the skill
\* returned text, the payload is that text unchanged.
C14_TextPayloadRoundTrip ==
    \A r \in DOMAIN pc :
        TextSuccess(r) =>
            /\ resp[r].value.content.type = TEXT
            /\ \E x \in ResultsOf(calls[r][1]) :
                  /\ x.ty \in {"dict", "list"} => json_loads(PayloadOf(r)) = Ok(x)
                  /\ x.ty = "str" => PayloadOf(r) = x

\* full_stack_agent returned a mapping whose code holds a quote and a line
\* break: the payload is text, and decoding it gives the mapping back.
C14_Witness ==
    \E r \in DOMAIN pc :
        /\ TextSuccess(r)
        /\ ResolvedId(r) = "full_stack_agent"
        /\ PayloadOf(r).ty = "str"
        /\ json_loads(PayloadOf(r)).ok
        /\ json_loads(PayloadOf(r)).val.ty = "dict"
        /\ StrContains("\n", json_loads(PayloadOf(r)).val.v["generatedCode"].v)

-----------------------------------------------------------------------------
(* C15 *)

\* A finished call of execute_message for Text or Structured content.
RoutedMessage(r) ==
    /\ Finished(r) /\ ProtocolB(r)
    /\ req[r].message.content.type \in {TEXT, JSON}

HasSkillId(r) == "skill_id" \in DOMAIN req[r].message.metadata
GivenSkillId(r) == req[r].message.metadata["skill_id"]

\* C15: execute_message falls back to "default_skill" only when the metadata
\* has no skill_id key.  A skill id that is present is used as given: a
\* registered one is the skill invoked and the skill_id of the success
\* envelope, one that is not registered is answered "Unknown skill ID: <that
\* id>" without an invocation, and the default is named in its place only
\* when the key is absent.
C15_DefaultOnlyWhenAbsent ==
    \A r \in DOMAIN pc :
        RoutedMessage(r) =>
            /\ (HasSkillId(r) /\ GivenSkillId(r) \in RegisteredSkills) =>
                  /\ \A i \in DOMAIN calls[r] : calls[r][i].skill = GivenSkillId(r)
                  /\ (calls[r] # <<>> /\ fault[r] = NoFault) =>
                         IsSuccessEnvelope(resp[r].value, GivenSkillId(r))
                  /\ calls[r] = <<>> => fault[r] # NoFault
            /\ (HasSkillId(r) /\ GivenSkillId(r) \notin RegisteredSkills) =>
                  /\ calls[r] = <<>>
                  /\ ErrorOf(r) = "Unknown skill ID: " \o GivenSkillId(r)
            /\ ~HasSkillId(r) => ErrorOf(r) = "Unknown skill ID: default_skill"
            /\ ErrorOf(r) = "Unknown skill ID: default_skill" =>
                  (~HasSkillId(r) \/ GivenSkillId(r) = "default_skill")

\* A Text envelope naming an id that is not registered was refused under
\* that id, not under the default.
C15_Witness ==
    \E r \in DOMAIN pc :
        /\ RoutedMessage(r)
        /\ HasSkillId(r) /\ GivenSkillId(r) = "ghost_agent"
        /\ calls[r] = <<>>
        /\ ErrorOf(r) = "Unknown skill ID: ghost_agent"

-----------------------------------------------------------------------------
(* C16 *)

\* Two calls with the same arguments.
SameInput(a, b) == pc[a] # "idle" /\ pc[b] # "idle" /\ req[a] = req[b]

\* A response without the generated envelope id.
Unwrapped(r) ==
    IF ProtocolA(r) THEN resp[r].value
    ELSE [content |-> resp[r].value.content, metadata |-> resp[r].value.metadata]

\* Whether a finished call counts as a success.
IsSuccess(r) == calls[r] # <<>> /\ fault[r] = NoFault

-----------------------------------------------------------------------------
(* C17 *)

\* The skill invocation a call makes when it is the only one.
AloneCalls(request) ==
    LET step == IF request.proto = "A"
                THEN ExecuteRoute(executor.A.context, request.content, request.skill_id,
                                  request.content_type)
                ELSE MessageRoute(executor.B.context, request.message,
                                  CHOOSE u \in Uuids : TRUE)
    IN  IF step.step = "invoke"
        THEN <<[skill |-> step.skill, context |-> step.context, arg |-> step.arg]>>
        ELSE <<>>

\* The responses a call can get when it is the only one: for each outcome of
\* the skill it invokes and each envelope id.
AloneResponses(request) ==
    IF request.proto = "A"
    THEN LET step == ExecuteRoute(executor.A.context, request.content, request.skill_id,
                                  request.content_type) IN
         CASE step.step = "return" -> {Returned(step.value)}
           [] step.step = "raise" -> {ExecuteExcept(step.fault)}
           [] step.step = "invoke" ->
                 { IF o.ok THEN ExecuteResult(o.val) ELSE ExecuteExcept(o.val) :
                     o \in SkillOutcomes(step.skill, step.context, step.arg) }
    ELSE UNION {
           LET step == MessageRoute(executor.B.context, request.message, uuid) IN
           CASE step.step = "return" -> {Returned(step.value)}
             [] step.step = "raise" ->
                   {MessageHandle(uuid, GuardedRoute(request.message), step.fault)}
             [] step.step = "invoke" ->
                   { IF o.ok THEN MessageResult(uuid, request.message, o.val)
                             ELSE MessageHandle(uuid, step.guarded, o.val) :
                       o \in SkillOutcomes(step.skill, step.context, step.arg) }
           : uuid \in Uuids }

\* The variables of every call but r are left as they are.
OthersUntouched(r) ==
    \A s \in DOMAIN pc \ {r} :
        /\ pc'[s] = pc[s] /\ req'[s] = req[s] /\ pending'[s] = pending[s]
        /\ calls'[s] = calls[s] /\ fault'[s] = fault[s] /\ resp'[s] = resp[s]

\* C17: with several calls in flight on the same executors, interleaved at
\* their awaits and completing in any order, every call invokes what it
\* would invoke alone and answers with a response it can get alone; a step
\* of one call changes nothing of another call, and no step changes the
\* executors, which hold nothing but the fields set at construction.
C17_InterleavingIsolated ==
    /\ [](\A r \in DOMAIN pc :
            /\ pc[r] # "idle" => calls[r] = AloneCalls(req[r])
            /\ Finished(r) => resp[r] \in AloneResponses(req[r]))
    /\ [][/\ executor' = executor
          /\ \E r \in DOMAIN pc : OthersUntouched(r)]_vars

\* Two different calls were suspended in their skills together, and the
\* second has completed while the first is still suspended.
C17_Witness ==
    /\ DOMAIN pc = {1, 2}
    /\ pc[1] = "awaiting"
    /\ Finished(2) /\ calls[2] # <<>>
    /\ req[1] # req[2]
    /\ resp[2] \in AloneResponses(req[2])

-----------------------------------------------------------------------------
(* C18 *)

\* The context of the executor that handles a call.
OwnContext(r) == IF ProtocolA(r) THEN executor.A.context ELSE executor.B.context

\* C18: the context is only forwarded.  Every skill invocation of execute
\* and of execute_message, made or pending, carries the context of the
\* executor that makes it, and no step, whether the call succeeds or ends in
\* an error, changes the executors' fields (context and agent_func) or the
\* arguments of a call in progress.
C18_ContextOnlyForwarded ==
    /\ [](\A r \in DOMAIN pc :
            /\ \A i \in DOMAIN calls[r] : calls[r][i].context = OwnContext(r)
            /\ pc[r] = "awaiting" => pending[r].context = OwnContext(r))
    /\ [][/\ executor' = executor
          /\ \A r \in DOMAIN pc :
                (pc[r] # "idle" /\ pc'[r] # "idle") => req'[r] = req[r]]_vars

\* A call of execute_message ended in the error of its skill: the skill had
\* been given the executor's context, and the executor still holds it.
C18_Witness ==
    \E r \in DOMAIN pc :
        /\ Finished(r) /\ ProtocolB(r)
        /\ fault[r] # NoFault
        /\ calls[r] # <<>>
        /\ calls[r][1].context = "mcp_context"
        /\ executor.B.context = "mcp_context"

-----------------------------------------------------------------------------
(* C19 *)

-----------------------------------------------------------------------------
(* C20 *)

\* A Text or Structured envelope whose metadata has no skill_id key.
NoSkillIdGiven(r) ==
    /\ pc[r] # "idle" /\ ProtocolB(r)
    /\ req[r].message.content.type \in {TEXT, JSON}
    /\ "skill_id" \notin DOMAIN req[r].message.metadata

\* C20: a Text or Structured envelope without a skill_id in its metadata
\* never invokes a skill: it is answered at once with the error "Unknown
\* skill ID: default_skill", in an envelope of the content kind of the
\* request.
C20_NoSkillIdIsUnknownDefault ==
    \A r \in DOMAIN pc :
        NoSkillIdGiven(r) =>
            /\ Finished(r)
            /\ calls[r] = <<>>
            /\ fault[r] = NoFault
            /\ resp[r].how = "returned"
            /\ IsErrorEnvelope(resp[r].value, req[r].message.content.type,
                               "Unknown skill ID: default_skill")

\* A Structured envelope with metadata that holds no skill_id was refused
\* with a Structured error.
C20_Witness ==
    \E r \in DOMAIN pc :
        /\ NoSkillIdGiven(r)
        /\ req[r].message.content.type = JSON
        /\ req[r].message.metadata = [k \in {"trace"} |-> "t1"]
        /\ resp[r].value.content.content = ErrorMap("Unknown skill ID: default_skill")

-----------------------------------------------------------------------------
(* C21 *)

\* execute has returned what auditor_agent made of a plan.
Audited(r) ==
    /\ Finished(r)
    /\ ProtocolA(r)
    /\ req[r].skill_id = "auditor_agent"
    /\ req[r].content_type = APPLICATION_JSON

\* The score of a plan when the last heuristic has been applied, before the cap.
ScoreBeforeCap(plan) ==
    RunningScore(Len(Heuristics), plan.v["optimizations"], plan.v["components"]).val

AllOptimizations(plan) == Len(plan.v["optimizations"].v) = Len(Heuristics)

\* No optimization, and for every heuristic a component that makes its
\* absence count.
NoneWithPenalisedComponents(plan) ==
    /\ plan.v["optimizations"].v = <<>>
    /\ \A i \in DOMAIN Heuristics :
          Heuristics[i].always
              \/ \E j \in DOMAIN plan.v["components"].v, k \in Heuristics[i].keywords :
                    StrContains(k, plan.v["components"].v[j].v)

\* The score left by the heuristics lies between the base less every penalty
\* and the base plus every bonus, and reaches both ends.
LeavesRange(plan, before) ==
    /\ before \in (70 - 78) .. (70 + 121)
    /\ AllOptimizations(plan) => before = 191
    /\ NoneWithPenalisedComponents(plan) => before = 0 - 8

\* The result carries the capped score, and the grade is built on it.
CappedInResult(result, before) ==
    /\ result.ty = "dict"
    /\ result.v["best_practices_score"].ty = "int"
    /\ result.v["best_practices_score"].v \in 0 .. 100
    /\ result.v["best_practices_score"].v =
          (IF before < 0 THEN 0 ELSE IF before > 100 THEN 100 ELSE before)
    /\ result.v["eco_grade"] =
          PyFloat(425 + 210 + 2 * result.v["best_practices_score"].v)

CappedAfterLeaving(plan, result, before) ==
    LeavesRange(plan, before) /\ CappedInResult(result, before)

\* C21: for every plan (any set of the optimizations, any list of component
\* names) auditor_agent returns a best_practices_score that is an integer
\* in 0..100.  The running score starts at 70 and leaves the range on both
\* sides (191 with all thirteen optimizations, -8 with none and components
\* that every heuristic penalises); the result and eco_grade hold the score
\* capped to the range.
C21_ScoreCapped ==
    /\ RunningScore(0, PyList(<<>>), PyList(<<>>)) = Ok(70)
    /\ \A r \in DOMAIN pc :
          Audited(r) =>
              /\ fault[r] = NoFault
              /\ resp[r].how = "returned"
              /\ CappedAfterLeaving(req[r].content, resp[r].value,
                                    ScoreBeforeCap(req[r].content))

\* A plan without optimizations whose components every heuristic penalises
\* was audited: the score went below 0 and the result holds 0.
C21_Witness ==
    \E r \in DOMAIN pc :
        /\ Audited(r)
        /\ NoneWithPenalisedComponents(req[r].content)
        /\ ScoreBeforeCap(req[r].content) < 0
        /\ resp[r].value.v["best_practices_score"] = PyInt(0)

\* A plan with all thirteen optimizations was audited: the score went above
\* 100 and the result holds 100.
C21_AboveRange ==
    \E r \in DOMAIN pc :
        /\ Audited(r)
        /\ AllOptimizations(req[r].content)
        /\ ScoreBeforeCap(req[r].content) > 100
        /\ resp[r].value.v["best_practices_score"] = PyInt(100)

====
